---- MODULE Spec2Model ----
(***************************************************************************)
(* A model of aw_datastore/datastore.py: the Datastore facade (bucket      *)
(* lifecycle and the cache of Bucket handles) and the Bucket handle        *)
(* (time-range normalisation in get, the ordering warning in insert).      *)
(* The storage strategy is an external collaborator; it is modelled from   *)
(* the interface the facade calls.                                         *)
(***************************************************************************)
EXTENDS Integers, Sequences, FiniteSets, TLC

VARIABLES
    storage_buckets,   \* storage strategy: bucket_id -> metadata (NoMeta when absent)
    storage_events,    \* storage strategy: bucket_id -> events, in insertion order
    bucket_instances,  \* Datastore.bucket_instances: bucket_id -> Bucket (NoBucket when absent)
    next_oid,          \* identity of the next Bucket object constructed
    now,               \* the wall clock
    stale,             \* history: bucket_id -> identities of the handles handed out before
                       \* the last delete_bucket (each was the cached handle when returned)
    ref,               \* the same calls on a Datastore that keeps no cache
    callers,           \* concurrent callers: position and locals of each
    last               \* history: the last call that ended and how it ended

vars == <<storage_buckets, storage_events, bucket_instances, next_oid, now,
          stale, ref, callers, last>>

----------------------------------------------------------------------------
(* Bounds *)

MaxClock == 1      \* the clock runs 0..MaxClock
MaxOid == 2        \* at most MaxOid Bucket objects are constructed

BucketIds == {"b1", "b2"}
Types == {"t1"}
Clients == {"c1"}
Hostnames == {"h1"}
Names == {"None", "n1"}
Createds == {1, 2}     \* the datetimes a caller passes as `created`

----------------------------------------------------------------------------
(* Values *)

NoMeta == [id |-> "None", type |-> "None", client |-> "None", hostname |-> "None",
           created |-> [iso8601 |-> -1], name |-> "None"]
NoBucket == [oid |-> 0, bucket_id |-> "None"]

\* the module is loaded at time LoadTime; the default of `created` is evaluated then
LoadTime == 0
CreatedDefault == LoadTime

\* datetime.isoformat(): the serialised form is a different value from the datetime
Isoformat(t) == [iso8601 |-> t]

\* Bucket.__init__: a new object (oid) bound to bucket_id
Bucket(oid, bucket_id) == [oid |-> oid, bucket_id |-> bucket_id]

----------------------------------------------------------------------------
(* The storage strategy *)

StorageBuckets(listing) == {b \in BucketIds : listing[b] # NoMeta}

StorageCreateBucket(listing, bucket_id, type, client, hostname, created, name) ==
    [listing EXCEPT ![bucket_id] =
        [id |-> bucket_id, type |-> type, client |-> client, hostname |-> hostname,
         created |-> created, name |-> name]]

StorageDeleteBucket(listing, bucket_id) == [listing EXCEPT ![bucket_id] = NoMeta]

StorageGetMetadata(listing, bucket_id) == listing[bucket_id]

----------------------------------------------------------------------------
(* Bucket: datetimes, events and the storage strategy's event calls *)

MaxTs == 1         \* event timestamps are 0, 500, ..., 500 * MaxTs microseconds
MaxEvents == 3     \* a bucket holds at most MaxEvents events
MaxList == 2       \* a list argument of insert holds at most MaxList events
MaxSec == 1        \* query times lie in seconds 0..MaxSec

\* a datetime is its number of microseconds since the epoch; NoTime is None
NoTime == -1
Million == 1000000
Microsecond(t) == t % Million
ReplaceMicrosecond(t, us) == t - Microsecond(t) + us
TimedeltaSeconds(n) == n * Million

NoEvent == [id |-> 0, timestamp |-> -1, data |-> "None"]
EventTimes == {500 * k : k \in 0..MaxTs}
Events == [id : {0}, timestamp : EventTimes, data : {"d"}]

RECURSIVE SeqsUpTo(_, _)
SeqsUpTo(S, n) ==
    IF n = 0 THEN {<<>>}
    ELSE SeqsUpTo(S, n - 1) \cup {Append(q, x) : q \in {r \in SeqsUpTo(S, n - 1) : Len(r) = n - 1}, x \in S}

\* what a caller can pass to insert: an Event, a list of Events, or something else
InsertArgs ==
    {[kind |-> "Event", events |-> <<e>>] : e \in Events}
    \cup {[kind |-> "list", events |-> l] : l \in SeqsUpTo(Events, MaxList)}
    \cup {[kind |-> "tuple", events |-> l] : l \in SeqsUpTo(Events, 1)}
    \cup {[kind |-> "None", events |-> <<>>]}

\* a value insert returns or the storage strategy hands back
NullValue == [tag |-> "None", events |-> <<>>]
EventValue(e) == [tag |-> "Event", events |-> <<e>>]
ListValue(l) == [tag |-> "list", events |-> l]
\* Python truthiness: None and the empty list are falsy, an Event (a non-empty dict) is truthy
Truthy(v) == v.tag = "Event" \/ (v.tag = "list" /\ v.events # <<>>)

RECURSIVE InsertDesc(_, _)
InsertDesc(e, s) ==
    IF s = <<>> THEN <<e>>
    ELSE IF Head(s).timestamp >= e.timestamp THEN <<Head(s)>> \o InsertDesc(e, Tail(s))
    ELSE <<e>> \o s

RECURSIVE SortDesc(_)
SortDesc(s) == IF s = <<>> THEN <<>> ELSE InsertDesc(Head(s), SortDesc(Tail(s)))

Take(s, n) == IF n < 0 \/ n >= Len(s) THEN s ELSE SubSeq(s, 1, n)

InRange(e, starttime, endtime) ==
    /\ starttime # NoTime => starttime <= e.timestamp
    /\ endtime # NoTime => e.timestamp <= endtime

\* get_events(bucket_id, limit, starttime, endtime): descending by timestamp
StorageGetEvents(evs, limit, starttime, endtime) ==
    Take(SortDesc(SelectSeq(evs, LAMBDA e : InRange(e, starttime, endtime))), limit)

\* the storage strategy assigns identifiers on insert
Stored(evs, e) == [e EXCEPT !.id = Len(evs) + 1]

RECURSIVE StorageInsertMany(_, _)
StorageInsertMany(evs, events) ==
    IF events = <<>> THEN evs
    ELSE StorageInsertMany(Append(evs, Stored(evs, Head(events))), Tail(events))

StorageInsertOne(evs, event) == Append(evs, Stored(evs, event))

\* what the storage strategy returns from insert_one / insert_many: the stored
\* event(s), or (a storage strategy that returns something else) None or an empty list
Returns == {"stored", "None", "empty"}
InsertOneReturn(evs, event, ret) ==
    IF ret = "stored" THEN EventValue(Stored(evs, event))
    ELSE IF ret = "None" THEN NullValue ELSE ListValue(<<>>)
InsertManyReturn(evs, events, ret) ==
    IF ret = "stored" THEN ListValue(SubSeq(StorageInsertMany(evs, events), Len(evs) + 1,
                                            Len(evs) + Len(events)))
    ELSE IF ret = "None" THEN NullValue ELSE ListValue(<<>>)

----------------------------------------------------------------------------
(* Bucket.get *)

\* an end-of-range rounding that leaves a whole millisecond where it is
NormalizeEndCeil(endtime) ==
    IF endtime # NoTime
    THEN LET microseconds == 1000 * ((Microsecond(endtime) + 999) \div 1000) IN
         IF microseconds > 999999
         THEN ReplaceMicrosecond(endtime, 0) + TimedeltaSeconds(1)
         ELSE ReplaceMicrosecond(endtime, microseconds)
    ELSE endtime

NormalizeStart(starttime) ==
    IF starttime # NoTime
    THEN ReplaceMicrosecond(starttime, 1000 * (Microsecond(starttime) \div 1000))
    ELSE starttime

NormalizeEnd(endtime) ==
    IF endtime # NoTime
    THEN LET microseconds == 1000 * ((Microsecond(endtime) \div 1000) + 1) IN
         IF microseconds > 999999
         THEN ReplaceMicrosecond(endtime, 0) + TimedeltaSeconds(1)
         ELSE ReplaceMicrosecond(endtime, microseconds)
    ELSE endtime

\* Bucket.get: the get_events call it makes, and what that returns
BucketGet(evs, limit, starttime, endtime) ==
    [call |-> <<limit, NormalizeStart(starttime), NormalizeEnd(endtime)>>,
     result |-> StorageGetEvents(evs, limit, NormalizeStart(starttime),
                                 NormalizeEnd(endtime))]

----------------------------------------------------------------------------
(* Bucket.insert *)

\* insert, lines 78-81: the latest event, read before the insert
ReadLastEvent(evs) ==
    LET last_event_list == BucketGet(evs, 1, NoTime, NoTime).result IN
    IF Len(last_event_list) > 0 THEN last_event_list[1] ELSE NoEvent

\* sorted(events, key=timestamp)[0]: the first of the events with the least timestamp
OldestEvent(events) ==
    IF Len(events) > 0
    THEN events[CHOOSE i \in 1..Len(events) :
                   /\ \A j \in 1..Len(events) : events[i].timestamp <= events[j].timestamp
                   /\ \A j \in 1..(i - 1) : events[j].timestamp > events[i].timestamp]
    ELSE NoEvent

\* an insert that takes any sequence for a list
InsertCallAnySequence(evs, arg, ret) ==
    IF arg.kind = "Event"
    THEN LET inserted == InsertOneReturn(evs, arg.events[1], ret) IN
         [kind |-> IF Truthy(inserted) THEN "returned" ELSE "AssertionError",
          value |-> IF Truthy(inserted) THEN inserted ELSE NullValue,
          from_storage |-> inserted,
          events |-> StorageInsertOne(evs, arg.events[1]),
          oldest_event |-> arg.events[1], calls |-> <<"insert_one">>]
    ELSE IF arg.kind \in {"list", "tuple"}
    THEN [kind |-> "returned", value |-> InsertManyReturn(evs, arg.events, ret),
          from_storage |-> InsertManyReturn(evs, arg.events, ret),
          events |-> StorageInsertMany(evs, arg.events),
          oldest_event |-> OldestEvent(arg.events), calls |-> <<"insert_many">>]
    ELSE [kind |-> "TypeError", value |-> NullValue, from_storage |-> NullValue,
          events |-> evs, oldest_event |-> NoEvent, calls |-> <<>>]

\* an insert that asserts the result of insert_many too
InsertCallAssertMany(evs, arg, ret) ==
    IF arg.kind = "Event"
    THEN LET inserted == InsertOneReturn(evs, arg.events[1], ret) IN
         [kind |-> IF Truthy(inserted) THEN "returned" ELSE "AssertionError",
          value |-> IF Truthy(inserted) THEN inserted ELSE NullValue,
          from_storage |-> inserted,
          events |-> StorageInsertOne(evs, arg.events[1]),
          oldest_event |-> arg.events[1], calls |-> <<"insert_one">>]
    ELSE IF arg.kind = "list"
    THEN LET inserted == InsertManyReturn(evs, arg.events, ret) IN
         [kind |-> IF Truthy(inserted) THEN "returned" ELSE "AssertionError",
          value |-> IF Truthy(inserted) THEN inserted ELSE NullValue,
          from_storage |-> inserted,
          events |-> StorageInsertMany(evs, arg.events),
          oldest_event |-> OldestEvent(arg.events), calls |-> <<"insert_many">>]
    ELSE [kind |-> "TypeError", value |-> NullValue, from_storage |-> NullValue,
          events |-> evs, oldest_event |-> NoEvent, calls |-> <<>>]

\* insert, lines 83-98: the storage call, how it ends (returned / AssertionError /
\* TypeError), the events stored after it and the oldest event inserted
InsertCall(evs, arg, ret) ==
    IF arg.kind = "Event"
    THEN LET inserted == InsertOneReturn(evs, arg.events[1], ret) IN
         [kind |-> IF Truthy(inserted) THEN "returned" ELSE "AssertionError",
          value |-> IF Truthy(inserted) THEN inserted ELSE NullValue,
          from_storage |-> inserted,
          events |-> StorageInsertOne(evs, arg.events[1]),
          oldest_event |-> arg.events[1], calls |-> <<"insert_one">>]
    ELSE IF arg.kind = "list"
    THEN [kind |-> "returned", value |-> InsertManyReturn(evs, arg.events, ret),
          from_storage |-> InsertManyReturn(evs, arg.events, ret),
          events |-> StorageInsertMany(evs, arg.events),
          oldest_event |-> OldestEvent(arg.events), calls |-> <<"insert_many">>]
    ELSE [kind |-> "TypeError", value |-> NullValue, from_storage |-> NullValue,
          events |-> evs, oldest_event |-> NoEvent, calls |-> <<>>]

\* a warning that also fires on equal timestamps
WarnsOrEqual(last_event, oldest_event) ==
    /\ last_event # NoEvent
    /\ oldest_event # NoEvent
    /\ oldest_event.timestamp <= last_event.timestamp

\* insert, lines 101-102
Warns(last_event, oldest_event) ==
    /\ last_event # NoEvent
    /\ oldest_event # NoEvent
    /\ oldest_event.timestamp < last_event.timestamp

\* Bucket.insert as one call
BucketInsert(evs, arg, ret) ==
    LET last_event == ReadLastEvent(evs)
        c == InsertCall(evs, arg, ret)
    IN [kind |-> c.kind, value |-> c.value, from_storage |-> c.from_storage,
        events |-> c.events,
        warned |-> c.kind = "returned" /\ Warns(last_event, c.oldest_event),
        calls |-> <<"get_events">> \o c.calls,
        get_call |-> BucketGet(evs, 1, NoTime, NoTime).call]

----------------------------------------------------------------------------
(* Datastore *)

\* Datastore.buckets
Buckets(listing) == StorageBuckets(listing)

\* a lookup that skips the existence check
GetItemUnchecked(instances, listing, bucket_id, oid) ==
    IF instances[bucket_id] = NoBucket
    THEN [kind |-> "Bucket", value |-> Bucket(oid, bucket_id),
          instances |-> [instances EXCEPT ![bucket_id] = Bucket(oid, bucket_id)]]
    ELSE [kind |-> "Bucket", value |-> instances[bucket_id], instances |-> instances]

\* Datastore.__getitem__: the result, and the cache after the call
GetItem(instances, listing, bucket_id, oid) ==
    IF instances[bucket_id] = NoBucket
    THEN IF bucket_id \in Buckets(listing)
         THEN [kind |-> "Bucket", value |-> Bucket(oid, bucket_id),
               instances |-> [instances EXCEPT ![bucket_id] = Bucket(oid, bucket_id)]]
         ELSE [kind |-> "KeyError", value |-> NoBucket, instances |-> instances]
    ELSE [kind |-> "Bucket", value |-> instances[bucket_id], instances |-> instances]

\* a delete_bucket that keeps the cached handle
EvictNever(instances, bucket_id) == instances

\* Datastore.delete_bucket, the cache part
Evict(instances, bucket_id) == [instances EXCEPT ![bucket_id] = NoBucket]

\* Bucket.metadata
Metadata(listing, bucket) == StorageGetMetadata(listing, bucket.bucket_id)

\* a Datastore without the cache decides a lookup from the listing alone
GetItemNoCache(listing, bucket_id) ==
    IF bucket_id \in StorageBuckets(listing) THEN "Bucket" ELSE "KeyError"

NoArgs == [type |-> "None", client |-> "None", hostname |-> "None",
           created_given |-> FALSE, created |-> -1, name |-> "None"]

Constructs(r) == r.instances # bucket_instances

Callers == {"p1", "p2"}

\* a caller that is in no call
IdleCaller == [pc |-> "idle", bucket_id |-> "None",
               arg |-> [kind |-> "None", events |-> <<>>], last_event |-> NoEvent,
               done |-> 0]
IdleCallers == [p \in Callers |-> IdleCaller]

Init ==
    /\ storage_buckets = [b \in BucketIds |-> NoMeta]
    /\ storage_events = [b \in BucketIds |-> <<>>]
    /\ bucket_instances = [b \in BucketIds |-> NoBucket]
    /\ next_oid = 1
    /\ now = LoadTime
    /\ stale = [b \in BucketIds |-> {}]
    /\ ref = [buckets |-> [b \in BucketIds |-> NoMeta], kind |-> "None"]
    /\ callers = IdleCallers
    /\ last = [op |-> "None", bucket_id |-> "None", kind |-> "None", value |-> NoBucket,
               args |-> NoArgs]

Tick ==
    /\ now < MaxClock
    /\ now' = now + 1
    /\ UNCHANGED <<storage_buckets, storage_events, bucket_instances, next_oid,
                   stale, ref, callers, last>>

\* Datastore[bucket_id]
Lookup(bucket_id) ==
    LET r == GetItem(bucket_instances, storage_buckets, bucket_id, next_oid) IN
    /\ Constructs(r) => next_oid <= MaxOid
    /\ bucket_instances' = r.instances
    /\ next_oid' = IF Constructs(r) THEN next_oid + 1 ELSE next_oid
    /\ ref' = [ref EXCEPT !.kind = GetItemNoCache(ref.buckets, bucket_id)]
    /\ last' = [op |-> "lookup", bucket_id |-> bucket_id, kind |-> r.kind,
                value |-> r.value, args |-> NoArgs]
    /\ UNCHANGED <<storage_buckets, storage_events, now, stale, callers>>

\* Datastore.create_bucket; ok: the storage strategy's create_bucket does not fail
CreateBucket(bucket_id, type, client, hostname, created_given, created_arg, name, ok) ==
    LET created == IF created_given THEN created_arg ELSE CreatedDefault
        args == [type |-> type, client |-> client, hostname |-> hostname,
                 created_given |-> created_given,
                 created |-> IF created_given THEN created_arg ELSE -1, name |-> name]
        listing == StorageCreateBucket(storage_buckets, bucket_id, type, client, hostname,
                                       Isoformat(created), name)
        r == GetItem(bucket_instances, listing, bucket_id, next_oid)
    IN
    IF ok
    THEN /\ Constructs(r) => next_oid <= MaxOid
         /\ storage_buckets' = listing
         /\ bucket_instances' = r.instances
         /\ next_oid' = IF Constructs(r) THEN next_oid + 1 ELSE next_oid
         /\ ref' = [buckets |-> StorageCreateBucket(ref.buckets, bucket_id, type, client,
                                    hostname, Isoformat(created), name),
                    kind |-> GetItemNoCache(
                                StorageCreateBucket(ref.buckets, bucket_id, type, client,
                                    hostname, Isoformat(created), name), bucket_id)]
         /\ last' = [op |-> "create_bucket", bucket_id |-> bucket_id, kind |-> r.kind,
                     value |-> r.value, args |-> args]
         /\ UNCHANGED <<storage_events, now, stale, callers>>
    ELSE /\ ref' = [ref EXCEPT !.kind = "StorageFailure"]
         /\ last' = [op |-> "create_bucket", bucket_id |-> bucket_id,
                     kind |-> "StorageFailure", value |-> NoBucket, args |-> args]
         /\ UNCHANGED <<storage_buckets, storage_events, bucket_instances, next_oid, now,
                        stale, callers>>

\* Datastore.delete_bucket; ok: the storage strategy's delete_bucket does not fail
DeleteBucket(bucket_id, ok) ==
    /\ bucket_instances' = Evict(bucket_instances, bucket_id)
    /\ stale' = IF bucket_instances[bucket_id] = NoBucket THEN stale
                ELSE [stale EXCEPT ![bucket_id] = @ \cup {bucket_instances[bucket_id].oid}]
    /\ storage_buckets' = IF ok THEN StorageDeleteBucket(storage_buckets, bucket_id)
                          ELSE storage_buckets
    /\ storage_events' = IF ok THEN [storage_events EXCEPT ![bucket_id] = <<>>]
                         ELSE storage_events
    /\ ref' = IF ok THEN [buckets |-> StorageDeleteBucket(ref.buckets, bucket_id),
                          kind |-> "None"]
              ELSE [ref EXCEPT !.kind = "StorageFailure"]
    /\ last' = [op |-> "delete_bucket", bucket_id |-> bucket_id,
                kind |-> IF ok THEN "None" ELSE "StorageFailure",
                value |-> NoBucket, args |-> NoArgs]
    /\ UNCHANGED <<next_oid, now, callers>>

Next ==
    \/ Tick
    \/ \E b \in BucketIds : Lookup(b)
    \/ \E b \in BucketIds, t \in Types, c \in Clients, h \in Hostnames,
          g \in BOOLEAN, cr \in Createds, n \in Names, ok \in BOOLEAN :
          CreateBucket(b, t, c, h, g, cr, n, ok)
    \/ \E b \in BucketIds, ok \in BOOLEAN : DeleteBucket(b, ok)

Spec == Init /\ [][Next]_vars

----------------------------------------------------------------------------
(* Bucket.insert with one caller *)

NoValueRecord ==
    [op |-> "None", bucket_id |-> "None", arg |-> [kind |-> "None", events |-> <<>>],
     kind |-> "None", value |-> NullValue, from_storage |-> NullValue, warned |-> FALSE,
     calls |-> <<>>, get_call |-> <<>>, before |-> <<>>]

\* a Datastore on which create_bucket(b, ...) has returned the handle of bucket b
BucketReady(b) ==
    /\ storage_buckets = StorageCreateBucket([x \in BucketIds |-> NoMeta], b, "t1", "c1",
                                             "h1", Isoformat(CreatedDefault), "None")
    /\ storage_events = [x \in BucketIds |-> <<>>]
    /\ bucket_instances = [x \in BucketIds |-> IF x = b THEN Bucket(1, b) ELSE NoBucket]
    /\ next_oid = 2
    /\ now = LoadTime
    /\ stale = [x \in BucketIds |-> {}]
    /\ ref = [buckets |-> storage_buckets, kind |-> "Bucket"]
    /\ callers = IdleCallers

InitBucket == \E b \in BucketIds : BucketReady(b) /\ last = NoValueRecord

\* Bucket.insert on the handle of bucket_id; ret: what the storage strategy returns
Insert(bucket_id, arg, ret) ==
    LET r == BucketInsert(storage_events[bucket_id], arg, ret) IN
    /\ bucket_instances[bucket_id] # NoBucket
    /\ Len(storage_events[bucket_id]) + Len(arg.events) <= MaxEvents
    /\ storage_events' = [storage_events EXCEPT ![bucket_id] = r.events]
    /\ last' = [op |-> "insert", bucket_id |-> bucket_id, arg |-> arg, kind |-> r.kind,
                value |-> r.value, from_storage |-> r.from_storage, warned |-> r.warned,
                calls |-> r.calls, get_call |-> r.get_call,
                before |-> storage_events[bucket_id]]
    /\ UNCHANGED <<storage_buckets, bucket_instances, next_oid, now, stale, ref, callers>>

\* the storage strategy keeps to its interface: insert_one and insert_many return
\* the stored event(s)
NextBucket == \E b \in BucketIds, arg \in InsertArgs : Insert(b, arg, "stored")

SpecBucket == InitBucket /\ [][NextBucket]_vars

\* any storage strategy: insert_one and insert_many may return anything
NextOpaque == \E b \in BucketIds, arg \in InsertArgs, ret \in Returns : Insert(b, arg, ret)

SpecOpaque == InitBucket /\ [][NextOpaque]_vars

----------------------------------------------------------------------------
(* Bucket.get on given arguments *)

MaxLimit == 2      \* limit ranges over -1..MaxLimit

SampleMicroseconds == {0, 1, 999, 1000, 1500, 998999, 999000, 999500, 999999}
QueryTimes == {TimedeltaSeconds(sec) + us : sec \in 0..MaxSec, us \in SampleMicroseconds}

GetFixture ==
    <<[id |-> 1, timestamp |-> 999000, data |-> "d"],
      [id |-> 2, timestamp |-> 1000000, data |-> "d"],
      [id |-> 3, timestamp |-> 999500, data |-> "d"]>>

\* a bucket with events, and a caller about to call get(limit, starttime, endtime)
InitGet ==
    \E b \in BucketIds, limit \in -1..MaxLimit,
       starttime \in QueryTimes \cup {NoTime}, endtime \in QueryTimes \cup {NoTime} :
        /\ storage_buckets = StorageCreateBucket([x \in BucketIds |-> NoMeta], b, "t1", "c1",
                                                 "h1", Isoformat(CreatedDefault), "None")
        /\ storage_events = [x \in BucketIds |-> IF x = b THEN GetFixture ELSE <<>>]
        /\ bucket_instances = [x \in BucketIds |-> IF x = b THEN Bucket(1, b) ELSE NoBucket]
        /\ next_oid = 2
        /\ now = LoadTime
        /\ stale = [x \in BucketIds |-> {}]
        /\ ref = [buckets |-> storage_buckets, kind |-> "Bucket"]
        /\ callers = IdleCallers
        /\ last = [op |-> "calling get", bucket_id |-> b, limit |-> limit,
                   starttime |-> starttime, endtime |-> endtime, call |-> <<>>,
                   result |-> <<>>]

\* Bucket.get
Get(bucket_id) ==
    LET r == BucketGet(storage_events[bucket_id], last.limit, last.starttime, last.endtime) IN
    /\ last.op = "calling get"
    /\ last.bucket_id = bucket_id
    /\ last' = [last EXCEPT !.op = "get", !.call = r.call, !.result = r.result]
    /\ UNCHANGED <<storage_buckets, storage_events, bucket_instances, next_oid, now,
                   stale, ref, callers>>

NextGet == \E b \in BucketIds : Get(b)

SpecGet == InitGet /\ [][NextGet]_vars

----------------------------------------------------------------------------
(* Datastore with concurrent callers: each step is one line of the facade; a call  *)
(* of the storage strategy is atomic                                               *)

AllIdle == \A p \in Callers : callers[p].pc = "idle"

At(p, pc, bucket_id) == [callers EXCEPT ![p].pc = pc, ![p].bucket_id = bucket_id]
Return(p) == [callers EXCEPT ![p].pc = "idle", ![p].bucket_id = "None"]

\* __getitem__, line 24
Line24(p, bucket_id) ==
    At(p, IF bucket_instances[bucket_id] = NoBucket THEN "getitem_26" ELSE "getitem_33",
       bucket_id)

\* a caller calls Datastore[bucket_id]: line 24
CallGetItem(p, bucket_id) ==
    /\ callers[p].pc = "idle"
    /\ callers' = Line24(p, bucket_id)
    /\ UNCHANGED <<storage_buckets, storage_events, bucket_instances, next_oid, now,
                   stale, ref, last>>

\* create_bucket, line 39: self[bucket_id], line 24
GetItem24(p) ==
    /\ callers[p].pc = "getitem_24"
    /\ callers' = Line24(p, callers[p].bucket_id)
    /\ UNCHANGED <<storage_buckets, storage_events, bucket_instances, next_oid, now,
                   stale, ref, last>>

\* __getitem__, line 26 (and lines 30-31: KeyError)
GetItem26(p) ==
    /\ callers[p].pc = "getitem_26"
    /\ callers' = IF callers[p].bucket_id \in Buckets(storage_buckets)
                  THEN At(p, "getitem_27", callers[p].bucket_id)
                  ELSE Return(p)
    /\ UNCHANGED <<storage_buckets, storage_events, bucket_instances, next_oid, now,
                   stale, ref, last>>

\* __getitem__, lines 27-28
GetItem27(p) ==
    /\ callers[p].pc = "getitem_27"
    /\ next_oid <= MaxOid
    /\ bucket_instances' = [bucket_instances EXCEPT ![callers[p].bucket_id] =
                               Bucket(next_oid, callers[p].bucket_id)]
    /\ next_oid' = next_oid + 1
    /\ callers' = At(p, "getitem_33", callers[p].bucket_id)
    /\ UNCHANGED <<storage_buckets, storage_events, now, stale, ref, last>>

\* __getitem__, line 33: the handle, or KeyError when the key has gone meanwhile
GetItem33(p) ==
    /\ callers[p].pc = "getitem_33"
    /\ callers' = Return(p)
    /\ UNCHANGED <<storage_buckets, storage_events, bucket_instances, next_oid, now,
                   stale, ref, last>>

\* a caller calls create_bucket: line 38; ok: the storage strategy does not fail
CallCreateBucket(p, bucket_id, ok) ==
    /\ callers[p].pc = "idle"
    /\ storage_buckets' =
          IF ok THEN StorageCreateBucket(storage_buckets, bucket_id, "t1", "c1", "h1",
                                         Isoformat(CreatedDefault), "None")
          ELSE storage_buckets
    /\ callers' = IF ok THEN At(p, "getitem_24", bucket_id) ELSE callers
    /\ UNCHANGED <<storage_events, bucket_instances, next_oid, now, stale, ref, last>>

\* a caller calls delete_bucket: line 43
CallDeleteBucket(p, bucket_id) ==
    /\ callers[p].pc = "idle"
    /\ callers' = At(p, IF bucket_instances[bucket_id] # NoBucket THEN "delete_44"
                        ELSE "delete_45", bucket_id)
    /\ UNCHANGED <<storage_buckets, storage_events, bucket_instances, next_oid, now,
                   stale, ref, last>>

\* delete_bucket, line 44: del, or KeyError when the key has gone meanwhile
Delete44(p) ==
    /\ callers[p].pc = "delete_44"
    /\ IF bucket_instances[callers[p].bucket_id] # NoBucket
       THEN /\ bucket_instances' = Evict(bucket_instances, callers[p].bucket_id)
            /\ callers' = At(p, "delete_45", callers[p].bucket_id)
       ELSE /\ bucket_instances' = bucket_instances
            /\ callers' = Return(p)
    /\ UNCHANGED <<storage_buckets, storage_events, next_oid, now, stale, ref, last>>

\* delete_bucket, line 45; ok: the storage strategy does not fail
Delete45(p, ok) ==
    /\ callers[p].pc = "delete_45"
    /\ storage_buckets' = IF ok THEN StorageDeleteBucket(storage_buckets, callers[p].bucket_id)
                          ELSE storage_buckets
    /\ callers' = Return(p)
    /\ UNCHANGED <<storage_events, bucket_instances, next_oid, now, stale, ref, last>>

NextConc ==
    \E p \in Callers :
        \/ \E b \in BucketIds : CallGetItem(p, b)
        \/ \E b \in BucketIds, ok \in BOOLEAN : CallCreateBucket(p, b, ok)
        \/ \E b \in BucketIds : CallDeleteBucket(p, b)
        \/ GetItem24(p)
        \/ GetItem26(p)
        \/ GetItem27(p)
        \/ GetItem33(p)
        \/ Delete44(p)
        \/ \E ok \in BOOLEAN : Delete45(p, ok)

SpecConc == Init /\ [][NextConc]_vars

----------------------------------------------------------------------------
(* Bucket.insert with concurrent callers: the read of the latest event (lines      *)
(* 78-81) and the storage insert (lines 83-107) are two steps                      *)

\* the events of arg, marked as the caller's
MarkedArg(arg, p) ==
    [arg EXCEPT !.events = [i \in 1..Len(arg.events) |-> [arg.events[i] EXCEPT !.data = p]]]

\* insert, lines 83-107, on the stored events evs, with last_event read earlier
InsertOutcome(evs, arg, last_event) ==
    LET c == InsertCall(evs, arg, "stored") IN
    [kind |-> c.kind, arg |-> arg, events |-> c.events, oldest_event |-> c.oldest_event,
     warned |-> c.kind = "returned" /\ Warns(last_event, c.oldest_event),
     last_event |-> last_event,
     latest |-> ReadLastEvent(evs)]    \* history: the latest event stored at the insert

NoOutcome ==
    [kind |-> "None", arg |-> [kind |-> "None", events |-> <<>>], events |-> <<>>,
     oldest_event |-> NoEvent, warned |-> FALSE, last_event |-> NoEvent, latest |-> NoEvent]

InitIns ==
    \E b \in BucketIds :
        /\ BucketReady(b)
        /\ last = [op |-> "None", caller |-> "None", bucket_id |-> b, outcome |-> NoOutcome]

Pending == {p \in Callers : callers[p].pc = "insert_83"}

RECURSIVE PendingEvents(_)
PendingEvents(P) ==
    IF P = {} THEN 0
    ELSE LET p == CHOOSE x \in P : TRUE IN
         Len(callers[p].arg.events) + PendingEvents(P \ {p})

\* a caller calls insert with an Event or a list: lines 78-81
CallInsert(p, bucket_id, arg) ==
    /\ callers[p].pc = "idle"
    /\ bucket_instances[bucket_id] # NoBucket
    /\ Len(storage_events[bucket_id]) + PendingEvents(Pending) + Len(arg.events)
           <= MaxEvents
    /\ callers' = [callers EXCEPT ![p].pc = "insert_83", ![p].bucket_id = bucket_id,
                                  ![p].arg = MarkedArg(arg, p),
                                  ![p].last_event = ReadLastEvent(storage_events[bucket_id])]
    /\ UNCHANGED <<storage_buckets, storage_events, bucket_instances, next_oid, now,
                   stale, ref, last>>

\* insert, lines 83-107
Insert83(p) ==
    LET b == callers[p].bucket_id
        o == InsertOutcome(storage_events[b], callers[p].arg, callers[p].last_event)
    IN
    /\ callers[p].pc = "insert_83"
    /\ storage_events' = [storage_events EXCEPT ![b] = o.events]
    /\ callers' = [callers EXCEPT ![p] =
                      [IdleCaller EXCEPT !.done = callers[p].done + Len(callers[p].arg.events)]]
    /\ last' = [op |-> "insert", caller |-> p, bucket_id |-> b,
                outcome |-> [o EXCEPT !.events = <<>>, !.arg = NoOutcome.arg]]
    /\ UNCHANGED <<storage_buckets, bucket_instances, next_oid, now, stale, ref>>

NextIns ==
    \E p \in Callers :
        \/ \E b \in BucketIds, arg \in {a \in InsertArgs : a.kind \in {"Event", "list"}} :
              CallInsert(p, b, arg)
        \/ Insert83(p)

SpecIns == InitIns /\ [][NextIns]_vars

\* a warning for an event that is not older than the latest event stored at its insert
FalsePositive(o) ==
    /\ o.warned
    /\ o.latest = NoEvent \/ o.oldest_event.timestamp >= o.latest.timestamp

\* no warning for an event that is older than the latest event stored at its insert
FalseNegative(o) ==
    /\ o.kind = "returned"
    /\ ~o.warned
    /\ o.latest # NoEvent
    /\ o.oldest_event # NoEvent
    /\ o.oldest_event.timestamp < o.latest.timestamp

StoredBy(evs, p) == Cardinality({i \in 1..Len(evs) : evs[i].data = p})

\* the interleavings of two inserts, one per caller: a caller's first step is its
\* read of the latest event, its second the storage insert
Schedules ==
    {s \in [1..4 -> Callers] : \A p \in Callers : Cardinality({i \in 1..4 : s[i] = p}) = 2}

RunStep(st, p, args) ==
    IF st.pc[p] = "idle"
    THEN [st EXCEPT !.pc[p] = "insert_83", !.last_event[p] = ReadLastEvent(st.events)]
    ELSE LET o == InsertOutcome(st.events, args[p], st.last_event[p]) IN
         [st EXCEPT !.pc[p] = "idle", !.events = o.events, !.outcome[p] = o]

RECURSIVE Run(_, _, _)
Run(st, sched, args) ==
    IF sched = <<>> THEN st ELSE Run(RunStep(st, Head(sched), args), Tail(sched), args)

\* the ends of all interleavings of two inserts of at most one event each, from evs
Runs(evs) ==
    LET small == {a \in InsertArgs : a.kind \in {"Event", "list"} /\ Len(a.events) <= 1}
        start == [events |-> evs, pc |-> [p \in Callers |-> "idle"],
                  last_event |-> [p \in Callers |-> NoEvent],
                  outcome |-> [p \in Callers |-> NoOutcome]]
    IN {Run(start, s, [p \in Callers |-> MarkedArg(a[p], p)]) :
            s \in Schedules, a \in [Callers -> small]}

----------------------------------------------------------------------------
(* Datastore: lookup, create_bucket, delete_bucket with one caller *)

\* what lookup(bucket_id) returns in the current state
LookupNow(bucket_id) == GetItem(bucket_instances, storage_buckets, bucket_id, next_oid)

\* C1: a lookup of a bucket_id that storage does not list fails with KeyError and
\* leaves the cache as it was; after a create_bucket that returned, lookup of that
\* bucket_id succeeds with a handle bound to it whose metadata() is what was supplied
\* (created in its serialised form).
C1_LookupAfterCreate ==
    [][ /\ \A b \in BucketIds :
             (Lookup(b) /\ b \notin Buckets(storage_buckets))
                 => (last'.kind = "KeyError" /\ bucket_instances' = bucket_instances)
        /\ (last'.op = "create_bucket" /\ last'.kind # "StorageFailure")
             => LET b == last'.bucket_id
                    a == last'.args
                    r == GetItem(bucket_instances', storage_buckets', b, next_oid')
                    m == Metadata(storage_buckets', r.value)
                IN /\ last'.kind = "Bucket"
                   /\ r.kind = "Bucket"
                   /\ r.value = last'.value
                   /\ r.value.bucket_id = b
                   /\ m.id = b
                   /\ m.type = a.type
                   /\ m.client = a.client
                   /\ m.hostname = a.hostname
                   /\ m.name = a.name
                   /\ (a.created_given => m.created = Isoformat(a.created))
      ]_vars

C1_Witness ==
    /\ last.op = "create_bucket"
    /\ last.kind = "Bucket"
    /\ last.args.created_given
    /\ last.args.created = 1
    /\ last.args.name = "n1"
    /\ LookupNow(last.bucket_id).kind = "Bucket"
    /\ \E b \in BucketIds : LookupNow(b).kind = "KeyError"

\* C2: after a delete_bucket that completed, lookup of the bucket_id fails with
\* KeyError; a create_bucket that the storage strategy accepts returns a handle, and
\* never one that was handed out for the bucket_id before a delete_bucket.
C2_DeleteThenFresh ==
    /\ (last.op = "delete_bucket" /\ last.kind = "None")
           => LookupNow(last.bucket_id).kind = "KeyError"
    /\ (last.op = "create_bucket" /\ last.kind # "StorageFailure")
           => (last.kind = "Bucket" /\ last.value.oid \notin stale[last.bucket_id])
    /\ \A b \in BucketIds : bucket_instances[b].oid \notin stale[b]

C2_Witness ==
    /\ last.op = "create_bucket"
    /\ last.kind = "Bucket"
    /\ stale[last.bucket_id] # {}

\* C8: a create_bucket called without `created` hands the storage strategy the time
\* of the call, serialised.
C8_CreatedIsNow ==
    [][ \A b \in BucketIds :
          (\E t \in Types, c \in Clients, h \in Hostnames, cr \in Createds, n \in Names :
               CreateBucket(b, t, c, h, FALSE, cr, n, TRUE))
             => storage_buckets'[b].created = Isoformat(now) ]_vars

\* C9: every call ends as it does on a Datastore without the cache (a handle, KeyError,
\* or the storage strategy's failure), and the two storages hold the same buckets.
C9_CacheHasNoRole ==
    /\ ref.kind = last.kind
    /\ ref.buckets = storage_buckets

C9_Witness ==
    /\ last.op = "lookup"
    /\ last.kind = "KeyError"
    /\ stale[last.bucket_id] # {}

----------------------------------------------------------------------------
(* Datastore with concurrent callers *)

\* C3: when no call is in progress, every bucket_id with a cached handle is in the
\* storage strategy's bucket listing.
C3_CacheWithinListingAtRest ==
    AllIdle => \A b \in BucketIds :
                   bucket_instances[b] # NoBucket => b \in StorageBuckets(storage_buckets)

----------------------------------------------------------------------------
(* Bucket.insert with concurrent callers *)

TheBucket == CHOOSE b \in BucketIds : bucket_instances[b] # NoBucket

\* no call in progress, a bucket with events, room for two more, and a timestamp
\* later than the latest stored one
AtRestWithRoom ==
    /\ AllIdle
    /\ storage_events[TheBucket] # <<>>
    /\ Len(storage_events[TheBucket]) + 2 <= MaxEvents
    /\ \E t \in EventTimes : t > ReadLastEvent(storage_events[TheBucket]).timestamp

\* C10 as claimed: from a bucket with events, two concurrent inserts have an
\* interleaving with a warning for an event that is not older than the latest stored
\* at its insert, and one with no warning for an event that is older; in every
\* interleaving both inserts return and both callers' events are stored.
C10_WarningWrongBothWays ==
    AtRestWithRoom
        => LET evs == storage_events[TheBucket] IN
           /\ \E r \in Runs(evs) : \E p \in Callers : FalsePositive(r.outcome[p])
           /\ \E r \in Runs(evs) : \E p \in Callers : FalseNegative(r.outcome[p])
           /\ \A r \in Runs(evs) : \A p \in Callers :
                 /\ r.outcome[p].kind = "returned"
                 /\ StoredBy(r.events, p) = StoredBy(evs, p) + Len(r.outcome[p].arg.events)

\* C10 as amended: an interleaving with a missing warning exists, and both inserts
\* return with their events stored in every interleaving; but no insert warns about
\* an event that is not older than the latest event stored at its insert.
C10_WarningOnlyMissed ==
    /\ last.op = "insert"
          => /\ last.outcome.kind = "returned"
             /\ ~FalsePositive(last.outcome)
    /\ \A p \in Callers : StoredBy(storage_events[TheBucket], p) = callers[p].done
    /\ AtRestWithRoom
          => LET evs == storage_events[TheBucket] IN
             /\ \E r \in Runs(evs) : \E p \in Callers : FalseNegative(r.outcome[p])
             /\ \A r \in Runs(evs) : \A p \in Callers :
                   /\ ~FalsePositive(r.outcome[p])
                   /\ r.outcome[p].kind = "returned"
                   /\ StoredBy(r.events, p)
                          = StoredBy(evs, p) + Len(r.outcome[p].arg.events)

C10_Witness ==
    /\ last.op = "insert"
    /\ FalseNegative(last.outcome)
    /\ last.outcome.last_event # NoEvent
    /\ AllIdle
    /\ \A p \in Callers : callers[p].done > 0

----------------------------------------------------------------------------
(* Bucket *)

ValidArg(arg) == arg.kind \in {"Event", "list"}

Timestamps(events) == {events[i].timestamp : i \in 1..Len(events)}
SetMin(S) == CHOOSE x \in S : \A y \in S : x <= y
SetMax(S) == CHOOSE x \in S : \A y \in S : x >= y

\* C4: insert of something that is neither an Event nor a list ends with TypeError,
\* having called only get_events(bucket_id, 1, None, None); the stored events are as
\* before.
C4_InvalidArgument ==
    (last.op = "insert" /\ ~ValidArg(last.arg))
        => /\ last.kind = "TypeError"
           /\ last.calls = <<"get_events">>
           /\ last.get_call = <<1, NoTime, NoTime>>
           /\ storage_events[last.bucket_id] = last.before

C4_Witness ==
    /\ last.op = "insert"
    /\ last.arg.kind = "tuple"
    /\ last.arg.events # <<>>
    /\ last.before # <<>>

\* C5: insert of an Event or a list always returns, having called insert_one /
\* insert_many; every event inserted is then in get(); the warning is given exactly
\* when the bucket held an event and the least inserted timestamp is strictly below
\* the greatest stored one.
C5_InsertNeverRejects ==
    (last.op = "insert" /\ ValidArg(last.arg))
        => LET all == BucketGet(storage_events[last.bucket_id], -1, NoTime, NoTime).result
               given == last.arg.events
           IN /\ last.kind = "returned"
              /\ last.calls = <<"get_events",
                                IF last.arg.kind = "Event" THEN "insert_one"
                                ELSE "insert_many">>
              /\ Len(all) = Len(last.before) + Len(given)
              /\ \A i \in 1..Len(given) :
                    \E j \in 1..Len(all) :
                        /\ all[j].timestamp = given[i].timestamp
                        /\ all[j].data = given[i].data
                        /\ all[j].id = Len(last.before) + i
              /\ last.warned <=> /\ last.before # <<>>
                                 /\ given # <<>>
                                 /\ SetMin(Timestamps(given)) < SetMax(Timestamps(last.before))

C5_Witness ==
    /\ last.op = "insert"
    /\ last.arg.kind = "list"
    /\ Len(last.arg.events) = 2
    /\ last.warned
    /\ last.arg.events[1].timestamp > last.arg.events[2].timestamp
    /\ last.arg.events[1].timestamp >= SetMax(Timestamps(last.before))

\* C6 as claimed: insert of an Event or a list returns what the storage strategy
\* returned, whatever it is.
C6_ReturnsWhateverStorageReturns ==
    (last.op = "insert" /\ ValidArg(last.arg))
        => (last.kind = "returned" /\ last.value = last.from_storage)

\* C6 as amended: insert of a list returns what insert_many returned, whatever it is;
\* insert of an Event returns what insert_one returned when that is truthy.
C6_ReturnsUnlessFalsyInsertOne ==
    (last.op = "insert" /\ ValidArg(last.arg)
        /\ (last.arg.kind = "list" \/ Truthy(last.from_storage)))
        => (last.kind = "returned" /\ last.value = last.from_storage)

C6_Witness ==
    /\ last.op = "insert"
    /\ last.arg.kind = "list"
    /\ last.arg.events # <<>>
    /\ last.from_storage = NullValue
    /\ last.kind = "returned"

\* C7: get passes limit and an absent time on unchanged; the starttime it passes is
\* the greatest whole millisecond not after the one given, the endtime the least whole
\* millisecond strictly after the one given (the start of the next second from
\* .999000 on); every event in the window asked for is in an unlimited result.
C7_WidenOnly ==
    (last.op = "get")
        => LET starttime == last.call[2]
               endtime == last.call[3]
           IN /\ last.call[1] = last.limit
              /\ last.starttime = NoTime => starttime = NoTime
              /\ last.endtime = NoTime => endtime = NoTime
              /\ last.starttime # NoTime
                    => /\ starttime % 1000 = 0
                       /\ starttime <= last.starttime
                       /\ last.starttime - starttime < 1000
              /\ last.endtime # NoTime
                    => /\ endtime % 1000 = 0
                       /\ endtime > last.endtime
                       /\ endtime - last.endtime <= 1000
              /\ (last.endtime # NoTime /\ Microsecond(last.endtime) >= 999000)
                    => endtime = TimedeltaSeconds((last.endtime \div Million) + 1)
              /\ last.limit < 0
                    => \A i \in 1..Len(storage_events[last.bucket_id]) :
                          LET e == storage_events[last.bucket_id][i] IN
                          InRange(e, last.starttime, last.endtime)
                              => \E j \in 1..Len(last.result) : last.result[j] = e

C7_Witness ==
    /\ last.op = "get"
    /\ last.endtime = TimedeltaSeconds(MaxSec) + 999500
    /\ last.call[3] = TimedeltaSeconds(MaxSec + 1)
    /\ last.starttime = 1500
    /\ last.call[2] = 1000
    /\ Len(last.result) = 3

====
